---- MODULE Spec2Model ----
(***************************************************************************)
(* Model of the Dev-connect REST server (src/index.js).                    *)
(*                                                                         *)
(* The state is the content of the MongoDB collections the handlers read   *)
(* and write (users, posts, comments, announcements) and the requests in   *)
(* flight.  Every handler is an async function: each `await` on a database *)
(* call is one atomic step of the model, and the synchronous code between  *)
(* two awaits belongs to the step of the await before it.  The step that   *)
(* takes a request from "idle" also receives it: it draws the request's    *)
(* inputs (token, params, body) and runs the handler up to and including   *)
(* its first database call.                                                *)
(*                                                                         *)
(* The database is taken to be available: a driver error (the catch        *)
(* branches answering 500 on a failed call) is not modelled, except the    *)
(* one the code raises itself, `new ObjectId(id)` on a malformed id.       *)
(***************************************************************************)
EXTENDS Integers, Sequences, FiniteSets, TLC

\* ---------------------------------------------------------------- bounds
\* Requests in flight at once (a slot serves one request per behaviour).
NReq == 2
\* Documents ever inserted into each collection during a behaviour.
MaxPosts == 1
MaxComments == 1
MaxAnnouncements == 1
\* Longest upVote / downVote array a POST /posts body carries.
MaxBody == 1

\* ---------------------------------------------------------------- inputs
Emails == {"a@x", "b@x"}
\* The Authorization header: absent, a token Firebase rejects, or a valid
\* token, named by the email it decodes to.
NoToken == "none"
BadToken == "bad"
Tokens == Emails \cup {NoToken, BadToken}
Roles == {"user", "admin"}
\* "other" stands for every voteType that is neither string.
VoteTypes == {"upvote", "downvote", "other"}
\* An id string `new ObjectId(id)` throws on; 1..Max* are well-formed ids.
BadId == 0
PostIds == 1..MaxPosts
CommentIds == 1..MaxComments
AnnouncementIds == 1..MaxAnnouncements
Slots == 1..NReq

VARIABLES users, posts, comments, announcements, reqs, trial

vars == <<users, posts, comments, announcements, reqs, trial>>

\* ---------------------------------------------------------------- arrays
\* Array.prototype.includes
Includes(arr, e) == \E i \in DOMAIN arr : arr[i] = e
\* arr.filter((email) => email !== e)
Filter(arr, e) == SelectSeq(arr, LAMBDA x : x # e)
\* The set of emails an array holds.
Elems(arr) == {arr[i] : i \in DOMAIN arr}
\* All arrays over S of length at most n.
SeqsUpTo(S, n) == UNION {[1..k -> S] : k \in 0..n}
\* The upVote / downVote values a POST /posts body can carry (an absent
\* field is the empty array: the vote handler reads it as `|| []`).
BodyVotes == SeqsUpTo(Emails, MaxBody)

\* ------------------------------------------------------------- documents
NoPost == [st |-> "none", authorEmail |-> "", upVote |-> <<>>, downVote |-> <<>>]
GonePost == [NoPost EXCEPT !.st = "gone"]
NoComment == [st |-> "none", email |-> ""]
GoneComment == [st |-> "gone", email |-> ""]

UserDoc(email, role, paymentStatus) ==
    [email |-> email, role |-> role, paymentStatus |-> paymentStatus]

\* usersCollection.findOne({ email }): the first matching document's
\* position in insertion order, 0 when there is none.
FindUser(us, email) ==
    IF \E i \in DOMAIN us : us[i].email = email
    THEN CHOOSE i \in DOMAIN us :
             /\ us[i].email = email
             /\ \A j \in DOMAIN us : us[j].email = email => i <= j
    ELSE 0

\* requester?.role of the document findOne returns ("" when there is none).
RoleOf(us, email) ==
    IF FindUser(us, email) = 0 THEN "" ELSE us[FindUser(us, email)].role

\* The smallest id no document was inserted under yet (a fresh ObjectId),
\* 0 when the collection's bound is reached.
FreshId(coll) ==
    IF \E i \in DOMAIN coll : coll[i].st = "none"
    THEN CHOOSE i \in DOMAIN coll :
             /\ coll[i].st = "none"
             /\ \A j \in DOMAIN coll : coll[j].st = "none" => i <= j
    ELSE 0

Live(coll, id) == id \in DOMAIN coll /\ coll[id].st = "live"

\* -------------------------------------------------------------- requests
Idle ==
    [kind |-> "none", pc |-> "idle", caller |-> "", id |-> 0, email |-> "",
     role |-> "", voteType |-> "", up |-> <<>>, down |-> <<>>, owner |-> "",
     status |-> 0, msg |-> ""]

\* A request past its first await: `kind` is the route, `pc` the next call.
Pending(kind, pc, caller) == [Idle EXCEPT !.kind = kind, !.pc = pc, !.caller = caller]

\* A request that was answered.
Answered(r, status, msg) == [r EXCEPT !.pc = "done", !.status = status, !.msg = msg]

Respond(s, r, status, msg) == reqs' = [reqs EXCEPT ![s] = Answered(r, status, msg)]

IsIdle(s) == reqs[s].pc = "idle"
At(s, kind, pc) == reqs[s].kind = kind /\ reqs[s].pc = pc

\* verifyToken: 401 without a Bearer header, 403 when verifyIdToken throws,
\* 0 when next() runs the handler.
VerifyTokenStatus(token) ==
    IF token = NoToken THEN 401 ELSE IF token = BadToken THEN 403 ELSE 0

VerifyTokenMsg(token) ==
    IF token = NoToken THEN "Unauthorized - No token provided"
    ELSE "Forbidden - Invalid token"

ProtectedKinds ==
    {"createPost", "deletePost", "vote", "createComment", "deleteComment",
     "setRole", "pay", "createAnnouncement", "deleteAnnouncement"}

\* verifyToken answering a protected route itself: the handler never runs.
VerifyTokenReject(s, kinds) ==
    /\ IsIdle(s)
    /\ \E kind \in kinds, token \in {NoToken, BadToken} :
         Respond(s, Pending(kind, "idle", ""), VerifyTokenStatus(token),
                 VerifyTokenMsg(token))
    /\ UNCHANGED <<users, posts, comments, announcements>>

\* ----------------------------------------------------------------- posts
\* POST /posts: the body is spread into the document, so it may carry
\* upVote and downVote (drawn from `bodies`); authorEmail is overwritten
\* from the token.
CreatePostWith(s, bodies) ==
    /\ IsIdle(s)
    /\ FreshId(posts) # 0
    /\ \E caller \in Emails, up \in bodies, down \in bodies :
         /\ posts' = [posts EXCEPT ![FreshId(posts)] =
                         [st |-> "live", authorEmail |-> caller,
                          upVote |-> up, downVote |-> down]]
         /\ Respond(s, [Pending("createPost", "idle", caller)
                           EXCEPT !.id = FreshId(posts)], 201, "inserted")
    /\ UNCHANGED <<users, comments, announcements>>

CreatePost(s) == CreatePostWith(s, BodyVotes)

\* The ownership check ahead of the lookup's result.
DeletePostOwnerFirst(post, caller) ==
    IF caller # post.authorEmail THEN "403"
    ELSE IF post.st # "live" THEN "404"
    ELSE "delete"

\* An admin override, as DELETE /comments/:id has: the seeded admin may
\* delete any post.
DeletePostAdminOverride(post, caller) ==
    IF post.st # "live" THEN "404"
    ELSE IF caller # post.authorEmail /\ caller # "a@x" THEN "403"
    ELSE "delete"

\* DELETE /posts/:id, up to the ownership check.
\* "404" | "403" | "delete"
DeletePostDecision(post, caller) ==
    IF post.st # "live" THEN "404"
    ELSE IF caller # post.authorEmail THEN "403"
    ELSE "delete"

DeletePostFind(s) ==
    /\ IsIdle(s)
    /\ \E caller \in Emails, id \in PostIds \cup {BadId} :
         LET r == [Pending("deletePost", "delete", caller) EXCEPT !.id = id] IN
         IF id = BadId
         THEN Respond(s, r, 500, "Internal server error")
         ELSE LET d == DeletePostDecision(posts[id], caller) IN
              IF d = "404" THEN Respond(s, r, 404, "Post not found")
              ELSE IF d = "403"
              THEN Respond(s, r, 403, "Forbidden - Not allowed to delete this post")
              ELSE reqs' = [reqs EXCEPT ![s] = r]
    /\ UNCHANGED <<users, posts, comments, announcements>>

\* postsCollection.deleteOne and the answer on deletedCount.
DeletePostDelete(s) ==
    /\ At(s, "deletePost", "delete")
    /\ IF Live(posts, reqs[s].id)
       THEN /\ posts' = [posts EXCEPT ![reqs[s].id] = GonePost]
            /\ Respond(s, reqs[s], 200, "Post deleted successfully")
       ELSE /\ posts' = posts
            /\ Respond(s, reqs[s], 404, "Post not found")
    /\ UNCHANGED <<users, comments, announcements>>

\* A vote that is not a toggle: a repeated vote stays.
VoteToggleNoUnvote(upVote, downVote, userEmail, voteType) ==
    IF voteType = "upvote"
    THEN [up |-> IF Includes(upVote, userEmail)
                 THEN upVote
                 ELSE Append(upVote, userEmail),
          down |-> Filter(downVote, userEmail)]
    ELSE IF voteType = "downvote"
    THEN [up |-> Filter(upVote, userEmail),
          down |-> IF Includes(downVote, userEmail)
                   THEN downVote
                   ELSE Append(downVote, userEmail)]
    ELSE [up |-> upVote, down |-> downVote]

\* A vote that leaves the opposite array alone.
VoteToggleKeepOpposite(upVote, downVote, userEmail, voteType) ==
    IF voteType = "upvote"
    THEN [up |-> IF Includes(upVote, userEmail)
                 THEN Filter(upVote, userEmail)
                 ELSE Append(upVote, userEmail),
          down |-> downVote]
    ELSE IF voteType = "downvote"
    THEN [up |-> upVote,
          down |-> IF Includes(downVote, userEmail)
                   THEN Filter(downVote, userEmail)
                   ELSE Append(downVote, userEmail)]
    ELSE [up |-> upVote, down |-> downVote]

\* The vote handler's array code between findOne and updateOne.
VoteToggle(upVote, downVote, userEmail, voteType) ==
    IF voteType = "upvote"
    THEN [up |-> IF Includes(upVote, userEmail)
                 THEN Filter(upVote, userEmail)
                 ELSE Append(upVote, userEmail),
          down |-> Filter(downVote, userEmail)]
    ELSE IF voteType = "downvote"
    THEN [up |-> Filter(upVote, userEmail),
          down |-> IF Includes(downVote, userEmail)
                   THEN Filter(downVote, userEmail)
                   ELSE Append(downVote, userEmail)]
    ELSE [up |-> upVote, down |-> downVote]

\* PATCH /posts/:id/vote: findOne, then the new arrays computed from the
\* document read; they wait in the request for updateOne.
VoteFindAs(s, caller, id, voteType) ==
    /\ IsIdle(s)
    /\ LET r == [Pending("vote", "update", caller)
                    EXCEPT !.id = id, !.voteType = voteType] IN
       IF id = BadId
       THEN Respond(s, r, 500, "Vote update failed")
       ELSE IF ~Live(posts, id)
       THEN Respond(s, r, 404, "Post not found")
       ELSE LET v == VoteToggle(posts[id].upVote, posts[id].downVote,
                                caller, voteType) IN
            reqs' = [reqs EXCEPT ![s] = [r EXCEPT !.up = v.up, !.down = v.down]]
    /\ UNCHANGED <<users, posts, comments, announcements>>

VoteFind(s) ==
    \E caller \in Emails, id \in PostIds \cup {BadId}, voteType \in VoteTypes :
        VoteFindAs(s, caller, id, voteType)

\* A store that merges the request's arrays into the stored ones
\* ($addToSet of each email) instead of replacing them.
AddAll(arr, more) ==
    arr \o SelectSeq(more, LAMBDA x : ~Includes(arr, x))

StoreVotesMerging(ps, id, up, down) ==
    IF Live(ps, id)
    THEN [ps EXCEPT ![id].upVote = AddAll(@, up), ![id].downVote = AddAll(@, down)]
    ELSE ps

\* updateOne({ _id }, { $set: { upVote, downVote } }): both arrays of the
\* matched document are replaced by the request's; no document, no write.
StoreVotes(ps, id, up, down) ==
    IF Live(ps, id)
    THEN [ps EXCEPT ![id].upVote = up, ![id].downVote = down]
    ELSE ps

\* updateOne and the answer { upVoteCount, downVoteCount } (the lengths of
\* the request's arrays, kept in the answered request).
VoteUpdate(s) ==
    /\ At(s, "vote", "update")
    /\ posts' = StoreVotes(posts, reqs[s].id, reqs[s].up, reqs[s].down)
    /\ Respond(s, reqs[s], 200, "counts")
    /\ UNCHANGED <<users, comments, announcements>>

\* ----------------------------------------------------------------- users
\* POST /users (no verifyToken): the email check and findOne({ email }).
RegisterFind(s) ==
    /\ IsIdle(s)
    /\ \E email \in Emails \cup {""} :
         LET r == [Pending("register", "insert", "") EXCEPT !.email = email] IN
         IF email = ""
         THEN Respond(s, r, 400, "Email is required")
         ELSE IF FindUser(users, email) # 0
         THEN Respond(s, r, 200, "User already exists")
         ELSE reqs' = [reqs EXCEPT ![s] = r]
    /\ UNCHANGED <<users, posts, comments, announcements>>

\* insertOne(newUser): role "user", paymentStatus "unpaid".
RegisterInsert(s) ==
    /\ At(s, "register", "insert")
    /\ users' = Append(users, UserDoc(reqs[s].email, "user", "unpaid"))
    /\ Respond(s, reqs[s], 201, "New user stored")
    /\ UNCHANGED <<posts, comments, announcements>>

\* `!requester || requester.role !== "admin"`, the guard of every
\* admin-only route.
NotAdmin(us, caller) == RoleOf(us, caller) # "admin"

\* The redundant-update guard ahead of the admin check.
SetRoleRequesterRedundantFirst(us, caller, email, role) ==
    IF email = "" \/ role = "" THEN "400"
    ELSE IF RoleOf(us, email) = role THEN "target"
    ELSE IF NotAdmin(us, caller) THEN "403"
    ELSE "target"

\* PATCH /users/admin, step 1: the body check and the requester lookup.
\* "400" | "403" | "target"
SetRoleRequesterDecision(us, caller, email, role) ==
    IF email = "" \/ role = "" THEN "400"
    ELSE IF NotAdmin(us, caller) THEN "403"
    ELSE "target"

SetRoleRequester(s) ==
    /\ IsIdle(s)
    /\ \E caller \in Emails, email \in Emails \cup {""}, role \in Roles \cup {""} :
         LET r == [Pending("setRole", "target", caller)
                      EXCEPT !.email = email, !.role = role]
             d == SetRoleRequesterDecision(users, caller, email, role) IN
         IF d = "400" THEN Respond(s, r, 400, "Email and role are required")
         ELSE IF d = "403" THEN Respond(s, r, 403, "Forbidden - Admins only")
         ELSE reqs' = [reqs EXCEPT ![s] = r]
    /\ UNCHANGED <<users, posts, comments, announcements>>

\* PATCH /users/admin, steps 2 and 3: the target lookup and the redundant
\* update guard.  "404" | "400" | "update"
SetRoleTargetDecision(us, email, role) ==
    IF FindUser(us, email) = 0 THEN "404"
    ELSE IF RoleOf(us, email) = role THEN "400"
    ELSE "update"

SetRoleTarget(s) ==
    /\ At(s, "setRole", "target")
    /\ LET d == SetRoleTargetDecision(users, reqs[s].email, reqs[s].role) IN
       IF d = "404" THEN Respond(s, reqs[s], 404, "User not found")
       ELSE IF d = "400" THEN Respond(s, reqs[s], 400, "User already has role")
       ELSE reqs' = [reqs EXCEPT ![s].pc = "update"]
    /\ UNCHANGED <<users, posts, comments, announcements>>

\* updateOne({ email }, { $set: { role } }) on the first matching document.
UpdateRole(us, email, role) ==
    IF FindUser(us, email) = 0 THEN us
    ELSE [us EXCEPT ![FindUser(us, email)].role = role]

\* PATCH /users/admin, step 4: updateOne and the answer on modifiedCount.
SetRoleUpdate(s) ==
    /\ At(s, "setRole", "update")
    /\ users' = UpdateRole(users, reqs[s].email, reqs[s].role)
    /\ IF users' # users
       THEN Respond(s, reqs[s], 200, "User role updated")
       ELSE Respond(s, reqs[s], 500, "Failed to update user role")
    /\ UNCHANGED <<posts, comments, announcements>>

\* updateOne({ email }, { $set: { paymentStatus: "paid" } }).
UpdatePaid(us, email) ==
    IF FindUser(us, email) = 0 THEN us
    ELSE [us EXCEPT ![FindUser(us, email)].paymentStatus = "paid"]

\* PATCH /users/payment-status: any valid token, any body email.
Pay(s) ==
    /\ IsIdle(s)
    /\ \E caller \in Emails, email \in Emails \cup {""} :
         LET r == [Pending("pay", "idle", caller) EXCEPT !.email = email] IN
         IF email = ""
         THEN /\ users' = users
              /\ Respond(s, r, 400, "Email is required")
         ELSE /\ users' = UpdatePaid(users, email)
              /\ IF users' # users
                 THEN Respond(s, r, 200, "Payment status updated to paid")
                 ELSE Respond(s, r, 404, "User not found or already paid")
    /\ UNCHANGED <<posts, comments, announcements>>

\* -------------------------------------------------------------- comments
\* POST /comments: `complete` is whether the body has postId and message;
\* the comment's email is the token's.
CreateComment(s) ==
    /\ IsIdle(s)
    /\ \E caller \in Emails, complete \in BOOLEAN :
         LET r == Pending("createComment", "idle", caller) IN
         IF ~complete
         THEN /\ comments' = comments
              /\ Respond(s, r, 400, "Missing required fields")
         ELSE /\ FreshId(comments) # 0
              /\ comments' = [comments EXCEPT ![FreshId(comments)] =
                                 [st |-> "live", email |-> caller]]
              /\ Respond(s, [r EXCEPT !.id = FreshId(comments)], 201, "inserted")
    /\ UNCHANGED <<users, posts, announcements>>

\* DELETE /comments/:id: findOne on the comment; its email is kept for the
\* owner test.
DeleteCommentFind(s) ==
    /\ IsIdle(s)
    /\ \E caller \in Emails, id \in CommentIds \cup {BadId} :
         LET r == [Pending("deleteComment", "requester", caller) EXCEPT !.id = id] IN
         IF id = BadId
         THEN Respond(s, r, 500, "Failed to delete comment")
         ELSE IF ~Live(comments, id)
         THEN Respond(s, r, 404, "Comment not found")
         ELSE reqs' = [reqs EXCEPT ![s] = [r EXCEPT !.owner = comments[id].email]]
    /\ UNCHANGED <<users, posts, comments, announcements>>

\* Owner only: no admin override.
DeleteCommentOwnerOnly(us, caller, owner) ==
    IF caller # owner THEN "403" ELSE "delete"

\* `!isOwner && !isAdmin` on the comment read and the requester's document.
\* "403" | "delete"
DeleteCommentDecision(us, caller, owner) ==
    IF caller # owner /\ RoleOf(us, caller) # "admin" THEN "403" ELSE "delete"

\* The requester lookup and the owner-or-admin test.
DeleteCommentRequester(s) ==
    /\ At(s, "deleteComment", "requester")
    /\ IF DeleteCommentDecision(users, reqs[s].caller, reqs[s].owner) = "403"
       THEN Respond(s, reqs[s], 403, "Forbidden - Not allowed to delete this comment")
       ELSE reqs' = [reqs EXCEPT ![s].pc = "delete"]
    /\ UNCHANGED <<users, posts, comments, announcements>>

\* commentsCollection.deleteOne and the answer on deletedCount.
DeleteCommentDelete(s) ==
    /\ At(s, "deleteComment", "delete")
    /\ IF Live(comments, reqs[s].id)
       THEN /\ comments' = [comments EXCEPT ![reqs[s].id] = GoneComment]
            /\ Respond(s, reqs[s], 200, "Comment deleted successfully")
       ELSE /\ comments' = comments
            /\ Respond(s, reqs[s], 404, "Comment not found")
    /\ UNCHANGED <<users, posts, announcements>>

\* --------------------------------------------------------- announcements
\* POST /announcements: `complete` is whether the body has title and
\* message; then the requester lookup and the admin guard.
CreateAnnouncementRequester(s) ==
    /\ IsIdle(s)
    /\ \E caller \in Emails, complete \in BOOLEAN :
         LET r == Pending("createAnnouncement", "insert", caller) IN
         IF ~complete
         THEN Respond(s, r, 400, "Title and message are required")
         ELSE IF NotAdmin(users, caller)
         THEN Respond(s, r, 403, "Forbidden - Admins only")
         ELSE reqs' = [reqs EXCEPT ![s] = r]
    /\ UNCHANGED <<users, posts, comments, announcements>>

\* announcementsCollection.insertOne.
CreateAnnouncementInsert(s) ==
    /\ At(s, "createAnnouncement", "insert")
    /\ FreshId(announcements) # 0
    /\ announcements' = [announcements EXCEPT ![FreshId(announcements)] =
                            [st |-> "live"]]
    /\ Respond(s, [reqs[s] EXCEPT !.id = FreshId(announcements)], 201,
               "Announcement created")
    /\ UNCHANGED <<users, posts, comments>>

\* DELETE /announcements/:id: the requester lookup and the admin guard.
DeleteAnnouncementRequester(s) ==
    /\ IsIdle(s)
    /\ \E caller \in Emails, id \in AnnouncementIds \cup {BadId} :
         LET r == [Pending("deleteAnnouncement", "delete", caller) EXCEPT !.id = id] IN
         IF NotAdmin(users, caller)
         THEN Respond(s, r, 403, "Forbidden - Admins only")
         ELSE reqs' = [reqs EXCEPT ![s] = r]
    /\ UNCHANGED <<users, posts, comments, announcements>>

\* deleteOne({ _id: new ObjectId(id) }) and the answer on deletedCount.
DeleteAnnouncementDelete(s) ==
    /\ At(s, "deleteAnnouncement", "delete")
    /\ IF reqs[s].id = BadId
       THEN /\ announcements' = announcements
            /\ Respond(s, reqs[s], 500, "Internal server error")
       ELSE IF Live(announcements, reqs[s].id)
       THEN /\ announcements' = [announcements EXCEPT ![reqs[s].id] = [st |-> "gone"]]
            /\ Respond(s, reqs[s], 200, "Announcement deleted")
       ELSE /\ announcements' = announcements
            /\ Respond(s, reqs[s], 404, "Announcement not found")
    /\ UNCHANGED <<users, posts, comments>>

\* ------------------------------------------------------ specifications
\* The database before the first request.  No route gives the first admin
\* its role: the deployment seeds one.  Every other table below is one the
\* routes reach from the seed (POST /users, PATCH /users/admin).
SeedAdmin == "a@x"
OtherUser == "b@x"

UserTables ==
    {<<UserDoc(SeedAdmin, ra, "unpaid")>> : ra \in Roles}
    \cup {<<UserDoc(SeedAdmin, ra, "unpaid"), UserDoc(OtherUser, rb, "unpaid")>> :
            ra \in Roles, rb \in Roles}

\* The ledger scenario's bookkeeping (see SpecLedger); idle elsewhere.
NoTrial ==
    [actor |-> "", first |-> "", second |-> "", calls |-> 0, read |-> FALSE,
     up0 |-> {}, down0 |-> {}, up2 |-> {}, down2 |-> {},
     alone |-> TRUE, fresh |-> TRUE, old |-> {}]

InitStores ==
    /\ posts = [i \in PostIds |-> NoPost]
    /\ comments = [i \in CommentIds |-> NoComment]
    /\ announcements = [i \in AnnouncementIds |-> [st |-> "none"]]
    /\ reqs = [s \in Slots |-> Idle]
    /\ trial = NoTrial

\* The posts collection's routes, from the seeded user table and either no
\* post or one post an earlier POST /posts created without vote fields.
InitPosts ==
    /\ users = <<UserDoc(SeedAdmin, "admin", "unpaid")>>
    /\ posts \in {[i \in PostIds |-> NoPost]}
                 \cup {[i \in PostIds |->
                          IF i = 1 THEN [NoPost EXCEPT !.st = "live", !.authorEmail = e]
                          ELSE NoPost] : e \in Emails}
    /\ comments = [i \in CommentIds |-> NoComment]
    /\ announcements = [i \in AnnouncementIds |-> [st |-> "none"]]
    /\ reqs = [s \in Slots |-> Idle]
    /\ trial = NoTrial

NextPosts ==
    \E s \in Slots :
        \/ VerifyTokenReject(s, {"createPost", "deletePost", "vote"}) /\ UNCHANGED trial
        \/ CreatePost(s) /\ UNCHANGED trial
        \/ DeletePostFind(s) /\ UNCHANGED trial
        \/ DeletePostDelete(s) /\ UNCHANGED trial
        \/ VoteFind(s) /\ UNCHANGED trial
        \/ VoteUpdate(s) /\ UNCHANGED trial

SpecPosts == InitPosts /\ [][NextPosts]_vars

\* Every route, from each user table.
Init ==
    /\ users \in UserTables
    /\ InitStores

Next ==
    \E s \in Slots :
        \/ VerifyTokenReject(s, ProtectedKinds) /\ UNCHANGED trial
        \/ RegisterFind(s) /\ UNCHANGED trial
        \/ RegisterInsert(s) /\ UNCHANGED trial
        \/ SetRoleRequester(s) /\ UNCHANGED trial
        \/ SetRoleTarget(s) /\ UNCHANGED trial
        \/ SetRoleUpdate(s) /\ UNCHANGED trial
        \/ Pay(s) /\ UNCHANGED trial
        \/ CreatePost(s) /\ UNCHANGED trial
        \/ DeletePostFind(s) /\ UNCHANGED trial
        \/ DeletePostDelete(s) /\ UNCHANGED trial
        \/ VoteFind(s) /\ UNCHANGED trial
        \/ VoteUpdate(s) /\ UNCHANGED trial
        \/ CreateComment(s) /\ UNCHANGED trial
        \/ DeleteCommentFind(s) /\ UNCHANGED trial
        \/ DeleteCommentRequester(s) /\ UNCHANGED trial
        \/ DeleteCommentDelete(s) /\ UNCHANGED trial
        \/ CreateAnnouncementRequester(s) /\ UNCHANGED trial
        \/ CreateAnnouncementInsert(s) /\ UNCHANGED trial
        \/ DeleteAnnouncementRequester(s) /\ UNCHANGED trial
        \/ DeleteAnnouncementDelete(s) /\ UNCHANGED trial

Spec == Init /\ [][Next]_vars

\* The users collection's routes.
NextUsers ==
    \E s \in Slots :
        \/ VerifyTokenReject(s, {"setRole", "pay"}) /\ UNCHANGED trial
        \/ RegisterFind(s) /\ UNCHANGED trial
        \/ RegisterInsert(s) /\ UNCHANGED trial
        \/ SetRoleRequester(s) /\ UNCHANGED trial
        \/ SetRoleTarget(s) /\ UNCHANGED trial
        \/ SetRoleUpdate(s) /\ UNCHANGED trial
        \/ Pay(s) /\ UNCHANGED trial

SpecUsers == Init /\ [][NextUsers]_vars

\* The gated writes (delete post, delete comment, change role, delete
\* announcement) and the routes that create their targets; posts are
\* created without vote fields, which no route here reads.
NextGated ==
    \E s \in Slots :
        \/ VerifyTokenReject(s, ProtectedKinds \ {"vote", "pay"}) /\ UNCHANGED trial
        \/ SetRoleRequester(s) /\ UNCHANGED trial
        \/ SetRoleTarget(s) /\ UNCHANGED trial
        \/ SetRoleUpdate(s) /\ UNCHANGED trial
        \/ CreatePostWith(s, {<<>>}) /\ UNCHANGED trial
        \/ DeletePostFind(s) /\ UNCHANGED trial
        \/ DeletePostDelete(s) /\ UNCHANGED trial
        \/ CreateComment(s) /\ UNCHANGED trial
        \/ DeleteCommentFind(s) /\ UNCHANGED trial
        \/ DeleteCommentRequester(s) /\ UNCHANGED trial
        \/ DeleteCommentDelete(s) /\ UNCHANGED trial
        \/ CreateAnnouncementRequester(s) /\ UNCHANGED trial
        \/ CreateAnnouncementInsert(s) /\ UNCHANGED trial
        \/ DeleteAnnouncementRequester(s) /\ UNCHANGED trial
        \/ DeleteAnnouncementDelete(s) /\ UNCHANGED trial

SpecGated == Init /\ [][NextGated]_vars

\* ---------------------------------------------------------------- ledger
\* One client (the subject, trial.actor) votes twice on post 1, its second
\* request sent after the first was answered, while the other slots serve
\* vote requests of the other actors on the same post.  The post starts
\* with any arrays a POST /posts body can give it.  `trial` records what
\* the properties of two consecutive votes are about:
\*   calls       the subject's writes landed so far
\*   read        the subject's current request has done its findOne
\*   up0, down0  the emails in the arrays the subject's first findOne read
\*   up2, down2  the emails in the stored arrays after its second write
\*   alone       no other request's write landed between the subject's
\*               first read and its second write
\*   old         the other requests whose findOne ran before the subject's
\*               first write
\*   fresh       no write of a request in `old` landed between the
\*               subject's first write and its second read
Subject == CHOOSE s \in Slots : \A u \in Slots : s <= u

\* The server is done with an answered request; the slot takes the next.
Retire(s) ==
    /\ reqs[s].pc = "done"
    /\ reqs' = [reqs EXCEPT ![s] = Idle]
    /\ UNCHANGED <<users, posts, comments, announcements>>

InitLedger ==
    /\ users = <<UserDoc(SeedAdmin, "admin", "unpaid")>>
    /\ \E e \in Emails, up \in BodyVotes, down \in BodyVotes :
         posts = [i \in PostIds |->
                    IF i = 1
                    THEN [st |-> "live", authorEmail |-> e,
                          upVote |-> up, downVote |-> down]
                    ELSE NoPost]
    /\ comments = [i \in CommentIds |-> NoComment]
    /\ announcements = [i \in AnnouncementIds |-> [st |-> "none"]]
    /\ reqs = [s \in Slots |-> Idle]
    /\ \E a \in Emails, v1 \in {"upvote", "downvote"}, v2 \in {"upvote", "downvote"} :
         trial = [NoTrial EXCEPT !.actor = a, !.first = v1, !.second = v2]

LedgerSubjectFind ==
    /\ trial.calls < 2
    /\ VoteFindAs(Subject, trial.actor, 1,
                  IF trial.calls = 0 THEN trial.first ELSE trial.second)
    /\ trial' = [trial EXCEPT
                   !.read = TRUE,
                   !.up0 = IF trial.calls = 0 THEN Elems(posts[1].upVote) ELSE @,
                   !.down0 = IF trial.calls = 0 THEN Elems(posts[1].downVote) ELSE @]

LedgerSubjectUpdate ==
    /\ VoteUpdate(Subject)
    /\ trial' = [trial EXCEPT
                   !.calls = @ + 1,
                   !.read = FALSE,
                   !.up2 = IF trial.calls = 1 THEN Elems(posts'[1].upVote) ELSE @,
                   !.down2 = IF trial.calls = 1 THEN Elems(posts'[1].downVote) ELSE @]

LedgerSubjectNext ==
    /\ trial.calls = 1
    /\ Retire(Subject)
    /\ UNCHANGED trial

LedgerOtherFind(s) ==
    /\ s # Subject
    /\ \E caller \in Emails \ {trial.actor}, voteType \in VoteTypes :
         VoteFindAs(s, caller, 1, voteType)
    /\ trial' = [trial EXCEPT !.old = IF trial.calls = 0 THEN @ \cup {s} ELSE @]

LedgerOtherUpdate(s) ==
    /\ s # Subject
    /\ VoteUpdate(s)
    /\ trial' = [trial EXCEPT
                   !.alone = @ /\ ~((trial.calls = 0 /\ trial.read) \/ trial.calls = 1),
                   !.fresh = @ /\ ~(s \in trial.old /\ trial.calls = 1 /\ ~trial.read)]

NextLedger ==
    \/ LedgerSubjectFind
    \/ LedgerSubjectUpdate
    \/ LedgerSubjectNext
    \/ \E s \in Slots : LedgerOtherFind(s)
    \/ \E s \in Slots : LedgerOtherUpdate(s)

SpecLedger == InitLedger /\ [][NextLedger]_vars

\* ---------------------------------------------------------------- claims
VoteAnswered(s) == reqs[s].kind = "vote" /\ reqs[s].pc = "done" /\ reqs[s].status = 200

\* C1: no email is in both upVote and downVote of a stored post, from its
\* creation by POST /posts on and after any votes.
C1_VoteSetsDisjoint ==
    \A i \in PostIds :
        posts[i].st = "live" =>
            Elems(posts[i].upVote) \cap Elems(posts[i].downVote) = {}

\* C3: a vote request's write replaces both stored arrays by the arrays it
\* computed from its own read and merges nothing: whenever vote requests on
\* a stored post were answered 200, the stored arrays are exactly those of
\* one of them (the last writer), so what the others wrote is gone.
C3_StoredIsOneRequestsWrite ==
    \A i \in PostIds :
        (posts[i].st = "live" /\ \E s \in Slots : VoteAnswered(s) /\ reqs[s].id = i)
        => \E s \in Slots :
              /\ VoteAnswered(s) /\ reqs[s].id = i
              /\ posts[i].upVote = reqs[s].up
              /\ posts[i].downVote = reqs[s].down

\* C3 witness: two upvotes by different actors on one post were both
\* answered 200, each answer counting its own vote, and the stored upVote
\* holds only one of the two emails.
C3_LostUpdate ==
    \E s \in Slots, u \in Slots :
        /\ VoteAnswered(s) /\ VoteAnswered(u)
        /\ reqs[s].id = reqs[u].id /\ Live(posts, reqs[s].id)
        /\ reqs[s].caller # reqs[u].caller
        /\ reqs[s].voteType = "upvote" /\ reqs[u].voteType = "upvote"
        /\ Includes(reqs[s].up, reqs[s].caller)
        /\ Includes(reqs[u].up, reqs[u].caller)
        /\ Includes(posts[reqs[s].id].upVote, reqs[s].caller)
        /\ ~Includes(posts[reqs[s].id].upVote, reqs[u].caller)

\* C2 (as claimed): the same vote by the same actor twice in a row, no other
\* request's write in between, leaves both vote sets as they were before
\* the first call.
C2_TwiceRestoresBoth ==
    (trial.calls = 2 /\ trial.first = trial.second /\ trial.alone)
    => trial.up2 = trial.up0 /\ trial.down2 = trial.down0

\* C2 (amended): the same vote twice in a row restores the voted-for set
\* and leaves the opposite set without the actor: both sets are restored
\* exactly when the actor was not in the opposite set before the first call.
C2_TwiceRestoresTarget ==
    (trial.calls = 2 /\ trial.first = trial.second /\ trial.alone)
    => IF trial.first = "upvote"
       THEN trial.up2 = trial.up0 /\ trial.down2 = trial.down0 \ {trial.actor}
       ELSE trial.down2 = trial.down0 /\ trial.up2 = trial.up0 \ {trial.actor}

\* C2 witness: an actor who had downvoted upvoted twice in a row; upVote is
\* back to its emails and the actor's downvote is gone.
C2_TwiceFromOpposite ==
    /\ trial.calls = 2 /\ trial.alone
    /\ trial.first = "upvote" /\ trial.second = "upvote"
    /\ trial.actor \in trial.down0
    /\ trial.up2 = trial.up0
    /\ trial.actor \notin trial.down2

\* C10 (as claimed): after an actor's upvote then downvote, with no other
\* vote of that actor in between, the actor is in downVote and not in
\* upVote; and the mirror image for downvote then upvote.
C10_SecondVoteStands ==
    (trial.calls = 2 /\ trial.first # trial.second)
    => IF trial.second = "downvote"
       THEN trial.actor \notin trial.up2 /\ trial.actor \in trial.down2
       ELSE trial.actor \notin trial.down2 /\ trial.actor \in trial.up2

\* C10 (amended): the same, provided no other actor's request that read the
\* post before the first vote's write wrote it between the first vote's
\* write and the second vote's read.
C10_SecondVoteStandsUnlessStaleWrite ==
    (trial.calls = 2 /\ trial.first # trial.second /\ trial.fresh)
    => IF trial.second = "downvote"
       THEN trial.actor \notin trial.up2 /\ trial.actor \in trial.down2
       ELSE trial.actor \notin trial.down2 /\ trial.actor \in trial.up2

\* C10 witness: upvote then downvote, another actor's write landed between
\* the two votes (a request that had read after the first vote), and the
\* actor ends in downVote only.
C10_UpThenDownWithOthers ==
    /\ trial.calls = 2 /\ trial.fresh /\ ~trial.alone
    /\ trial.first = "upvote" /\ trial.second = "downvote"
    /\ trial.actor \in trial.up0
    /\ trial.actor \notin trial.up2 /\ trial.actor \in trial.down2

\* A step of request s that answers it.
Answers(s) == reqs[s].pc # "done" /\ reqs'[s].pc = "done"
\* A step that takes slot s from idle to a request of `kind` sent with a
\* valid token.
Receives(s, kind) ==
    IsIdle(s) /\ reqs'[s].kind = kind /\ reqs'[s].caller \in Emails

\* C9 (as claimed): the users collection holds at most one document per
\* email.
C9_EmailUnique ==
    \A i \in DOMAIN users, j \in DOMAIN users :
        users[i].email = users[j].email => i = j

\* C4 (as claimed): a role change whose requested role is the target's
\* stored role is answered 400 "User already has role" and writes nothing,
\* whoever the caller is.
C4_RedundantForEveryCaller ==
    [][\A s \in Slots :
         (/\ Answers(s)
          /\ reqs'[s].kind = "setRole" /\ reqs'[s].caller \in Emails
          /\ reqs'[s].role # ""
          /\ RoleOf(users, reqs'[s].email) = reqs'[s].role)
         => /\ reqs'[s].status = 400
            /\ reqs'[s].msg = "User already has role"
            /\ users' = users]_vars

\* C4 (amended): the admin check comes first.  A caller whose stored role
\* is not admin is answered 403 "Forbidden - Admins only", also when the
\* requested role is the target's; for a caller that passed the check, a
\* requested role equal to the role the target lookup reads is answered
\* 400 "User already has role".  Neither request writes.
C4_RedundantAfterAdminCheck ==
    [][\A s \in Slots :
         /\ (/\ Receives(s, "setRole")
             /\ reqs'[s].email # "" /\ reqs'[s].role # ""
             /\ RoleOf(users, reqs'[s].caller) # "admin")
            => /\ reqs'[s].pc = "done" /\ reqs'[s].status = 403
               /\ reqs'[s].msg = "Forbidden - Admins only"
               /\ users' = users
         /\ (/\ At(s, "setRole", "target") /\ reqs'[s] # reqs[s]
             /\ RoleOf(users, reqs[s].email) = reqs[s].role)
            => /\ reqs'[s].pc = "done" /\ reqs'[s].status = 400
               /\ reqs'[s].msg = "User already has role"
               /\ users' = users]_vars

\* C4 witness: a redundant role change by a non-admin was answered 403 and
\* one by an admin 400; the target still has the role.
C4_RedundantBothCallers ==
    \E s \in Slots, u \in Slots :
        /\ reqs[s].kind = "setRole" /\ reqs[s].pc = "done"
        /\ reqs[s].status = 403 /\ reqs[s].msg = "Forbidden - Admins only"
        /\ RoleOf(users, reqs[s].caller) # "admin"
        /\ RoleOf(users, reqs[s].email) = reqs[s].role
        /\ reqs[u].kind = "setRole" /\ reqs[u].pc = "done"
        /\ reqs[u].status = 400 /\ reqs[u].msg = "User already has role"
        /\ RoleOf(users, reqs[u].caller) = "admin"
        /\ RoleOf(users, reqs[u].email) = reqs[u].role

\* Whether the resource a gated write request names is stored.
TargetStored(r) ==
    IF r.kind = "deletePost" THEN Live(posts, r.id)
    ELSE IF r.kind = "deleteComment" THEN Live(comments, r.id)
    ELSE IF r.kind = "deleteAnnouncement" THEN Live(announcements, r.id)
    ELSE FindUser(users, r.email) # 0

\* C5 (as claimed): a gated write request (delete post, delete comment,
\* change role, delete announcement) sent with a valid token and naming a
\* resource that is not stored is answered 404, never 403.
C5_LookupBeforePolicy ==
    [][\A s \in Slots :
         (/\ Answers(s)
          /\ reqs'[s].kind \in {"deletePost", "deleteComment", "setRole",
                                "deleteAnnouncement"}
          /\ reqs'[s].caller \in Emails
          /\ reqs'[s].id # BadId \/ reqs'[s].kind = "setRole"
          /\ reqs'[s].kind = "setRole" => reqs'[s].email # "" /\ reqs'[s].role # ""
          /\ ~TargetStored(reqs'[s]))
         => reqs'[s].status = 404]_vars

\* C5 (amended): DELETE /posts/:id and DELETE /comments/:id look the target
\* up first: a well-formed id naming no stored document is answered 404
\* whoever calls.  PATCH /users/admin and DELETE /announcements/:id check
\* the caller's role first: a caller whose stored role is not admin is
\* answered 403 whether or not the target is stored, and a caller that
\* passed the check is answered 404 when the target is not stored.
C5_OrderPerRoute ==
    [][\A s \in Slots :
         /\ (/\ Receives(s, "deletePost") /\ reqs'[s].id # BadId
             /\ ~Live(posts, reqs'[s].id))
            => reqs'[s].pc = "done" /\ reqs'[s].status = 404
         /\ (/\ Receives(s, "deleteComment") /\ reqs'[s].id # BadId
             /\ ~Live(comments, reqs'[s].id))
            => reqs'[s].pc = "done" /\ reqs'[s].status = 404
         /\ (/\ Receives(s, "setRole")
             /\ reqs'[s].email # "" /\ reqs'[s].role # ""
             /\ RoleOf(users, reqs'[s].caller) # "admin")
            => reqs'[s].pc = "done" /\ reqs'[s].status = 403
         /\ (/\ At(s, "setRole", "target") /\ reqs'[s] # reqs[s]
             /\ FindUser(users, reqs[s].email) = 0)
            => reqs'[s].pc = "done" /\ reqs'[s].status = 404
         /\ (/\ Receives(s, "deleteAnnouncement")
             /\ RoleOf(users, reqs'[s].caller) # "admin")
            => reqs'[s].pc = "done" /\ reqs'[s].status = 403
         /\ (/\ At(s, "deleteAnnouncement", "delete") /\ reqs'[s] # reqs[s]
             /\ reqs[s].id # BadId /\ ~Live(announcements, reqs[s].id))
            => reqs'[s].pc = "done" /\ reqs'[s].status = 404]_vars

\* C5 witness: a role change naming an email with no user document was
\* answered 403 to a non-admin, and the deletion of an announcement that is
\* not stored was answered 404 to an admin.
C5_MissingTargetBothOrders ==
    \E s \in Slots, u \in Slots :
        /\ reqs[s].kind = "setRole" /\ reqs[s].pc = "done"
        /\ reqs[s].status = 403 /\ reqs[s].msg = "Forbidden - Admins only"
        /\ FindUser(users, reqs[s].email) = 0
        /\ reqs[u].kind = "deleteAnnouncement" /\ reqs[u].pc = "done"
        /\ reqs[u].status = 404
        /\ RoleOf(users, reqs[u].caller) = "admin"
        /\ ~Live(announcements, reqs[u].id)

\* C6 (as claimed): a step that changes a user's role or inserts or removes
\* an announcement for a role-change or announcement request is taken for a
\* caller whose stored role is admin.
C6_EffectOnlyForAdmin ==
    [][\A s \in Slots :
         (/\ reqs[s].kind \in {"setRole", "createAnnouncement", "deleteAnnouncement"}
          /\ reqs[s].pc \notin {"idle", "done"}
          /\ reqs'[s] # reqs[s]
          /\ users' # users \/ announcements' # announcements)
         => RoleOf(users, reqs[s].caller) = "admin"]_vars

\* C7: DELETE /comments/:id on a stored comment.  A caller who is not the
\* comment's email and whose stored role is not admin is answered 403 and
\* the comment stays; for the owner or an admin the request goes on to
\* deleteOne, which removes the comment and is answered 200.  Nothing else
\* removes a comment.
C7_OwnerOrAdminDeletes ==
    [][/\ \A s \in Slots :
            /\ (/\ At(s, "deleteComment", "requester") /\ reqs'[s] # reqs[s]
                /\ Live(comments, reqs[s].id))
               => IF /\ reqs[s].caller # comments[reqs[s].id].email
                     /\ RoleOf(users, reqs[s].caller) # "admin"
                  THEN /\ reqs'[s].pc = "done" /\ reqs'[s].status = 403
                       /\ comments' = comments
                  ELSE reqs'[s].pc = "delete"
            /\ (/\ At(s, "deleteComment", "delete") /\ reqs'[s] # reqs[s]
                /\ Live(comments, reqs[s].id))
               => /\ ~Live(comments', reqs[s].id)
                  /\ reqs'[s].pc = "done" /\ reqs'[s].status = 200
       /\ \A i \in CommentIds :
            (Live(comments, i) /\ ~Live(comments', i))
            => \E s \in Slots :
                  /\ At(s, "deleteComment", "delete") /\ reqs[s].id = i
                  /\ reqs'[s].pc = "done"]_vars

\* C7 witness: an admin who is not the comment's owner deleted it.
C7_AdminDeletedOthersComment ==
    \E s \in Slots, u \in Slots :
        /\ reqs[s].kind = "createComment" /\ reqs[s].pc = "done"
        /\ reqs[s].status = 201
        /\ reqs[u].kind = "deleteComment" /\ reqs[u].pc = "done"
        /\ reqs[u].status = 200 /\ reqs[u].id = reqs[s].id
        /\ reqs[u].caller # reqs[s].caller
        /\ RoleOf(users, reqs[u].caller) = "admin"
        /\ comments[reqs[u].id].st = "gone"

C11_UnknownVoteTypeNoOp ==
    [][\A s \in Slots :
          (/\ At(s, "vote", "update") /\ reqs'[s] # reqs[s]
           /\ reqs[s].voteType \notin {"upvote", "downvote"}
           /\ Live(posts, reqs[s].id))
          => /\ reqs'[s].pc = "done" /\ reqs'[s].status = 200
             /\ Elems(posts'[reqs[s].id].upVote) = Elems(posts[reqs[s].id].upVote)
             /\ Elems(posts'[reqs[s].id].downVote) = Elems(posts[reqs[s].id].downVote)
             /\ Len(reqs'[s].up) = Len(posts'[reqs[s].id].upVote)
             /\ Len(reqs'[s].down) = Len(posts'[reqs[s].id].downVote)]_vars

====
